---- MODULE Spec2Model ----
(***************************************************************************)
(* State-machine model of google-apps-scripts/split-gas-file.py: the       *)
(* catalog MODULES, extract_function_with_body, and the two passes and the *)
(* report of main().                                                       *)
(*                                                                         *)
(* A line of text is a sequence of tokens.  A token is a run of characters *)
(* that the program never looks inside: the keyword "function " (with its  *)
(* blank), "var ", one brace, one parenthesis, a blank, a piece of an      *)
(* identifier.  Only the tokens "{" and "}" contain a brace, only " " is   *)
(* white space.  The newline that ends a line is left out, so the blank    *)
(* line and the spacer '\n' of line 190 are both the empty sequence.       *)
(* Indices are 0-based as in the program; lines[k + 1] is Python's         *)
(* lines[k].                                                               *)
(***************************************************************************)
EXTENDS Integers, Sequences, FiniteSets, TLC

VARIABLES
    lines,           \* main: lines, the content of the input file
    MODULES,         \* the module-level dict, in insertion order
    pc,              \* where main() is: "pass1", "pass2", "done"
    i,               \* main: i, the cursor of pass 1 and the index of pass 2
    assigned_lines,  \* main: assigned_lines
    header,          \* main: header
    unmatched,       \* main: unmatched
    in_header,       \* main: in_header
    report,          \* what main() printed, once it has
    units,           \* history: one record per execution of lines 188-194 or 198-200
    prev             \* history: the outcome of the previous call of main(), if any

vars == <<lines, MODULES, pc, i, assigned_lines, header, unmatched, in_header,
          report, units, prev>>

\* The longest input file of the model, in lines.
MaxLen == 3

\* unmatched[:20] of the report.
ReportLimit == 20

Min(a, b) == IF a < b THEN a ELSE b

(***************************************************************************)
(* Text                                                                    *)
(***************************************************************************)

\* str.count of a one-character token.
count(tok, line) == Cardinality({ k \in 1..Len(line) : line[k] = tok })

\* str.strip, of which the program reads only the front and the emptiness.
RECURSIVE lstrip(_)
lstrip(line) ==
    IF line # <<>> /\ Head(line) = " " THEN lstrip(Tail(line)) ELSE line

\* line.strip().startswith(tok)
strip_startswith(line, tok) ==
    LET s == lstrip(line) IN s # <<>> /\ Head(s) = tok

\* line.strip().startswith('function ')
IsFunctionLine(line) == strip_startswith(line, "function ")

\* line.strip().startswith('var ')
IsVarLine(line) == strip_startswith(line, "var ")

\* bool(line.strip())
NonBlank(line) == lstrip(line) # <<>>

\* line.strip().startswith('/*') or line.strip().startswith('*')
IsCommentLine(line) == strip_startswith(line, "/*") \/ strip_startswith(line, "*")

(***************************************************************************)
(* The patterns of MODULES.  Each is  ^kw (alt|alt|...) tail : kw is       *)
(* 'function ' or 'var ', an alternative is a sequence of atoms (an atom   *)
(* is the set of tokens it accepts, so a literal is a singleton and [A-Z]  *)
(* the set of upper-case letters), tail is '\(' or '\s*='.                 *)
(***************************************************************************)

UpperCase == {"D", "X"}

Lit(tok) == {tok}

\* An alternative matches at the front of toks; what is left of toks follows it.
AltMatches(alt, toks) ==
    /\ Len(toks) >= Len(alt)
    /\ \A k \in 1..Len(alt) : toks[k] \in alt[k]

\* '\(' : the very next character is a parenthesis.
\* '\s*=' : any white space, then the equals sign.
TailMatches(tail, toks) ==
    IF tail = "("
    THEN toks # <<>> /\ Head(toks) = "("
    ELSE LET s == lstrip(toks) IN s # <<>> /\ Head(s) = "="

\* re.search(pattern, line) for a pattern anchored with ^ (no re.MULTILINE).
re_search(pattern, line) ==
    /\ line # <<>>
    /\ Head(line) = pattern.kw
    /\ \E alt \in pattern.alts :
          /\ AltMatches(alt, Tail(line))
          /\ TailMatches(pattern.tail,
                         SubSeq(line, Len(alt) + 2, Len(line)))

\* any(re.search(p, line) for p in module_info['patterns'])
ModuleMatches(module_info, line) ==
    \E p \in 1..Len(module_info.patterns) : re_search(module_info.patterns[p], line)

(***************************************************************************)
(* MODULES.  Five of its entries, with some of their alternatives.  As     *)
(* shipped no line is matched by two entries; utils_sheets_dual is         *)
(* utils-sheets.gs with toBool added to its alternatives, which gives the  *)
(* catalogs of the model a line two entries match.                         *)
(***************************************************************************)

config ==
    [name |-> "config.gs",
     patterns |-> << [kw |-> "var ", tail |-> "=",
                      alts |-> { <<Lit("MIN_BALANCE")>>, <<Lit("TOPUP_AMOUNT")>> }] >>,
     content |-> <<>>]

utils_core ==
    [name |-> "utils-core.gs",
     patterns |-> << [kw |-> "function ", tail |-> "(",
                      alts |-> { <<Lit("toBool")>>, <<Lit("props_")>> }] >>,
     content |-> <<>>]

utils_sheets_dual ==
    [name |-> "utils-sheets.gs",
     patterns |-> << [kw |-> "function ", tail |-> "(",
                      alts |-> { <<Lit("a1_")>>, <<Lit("toBool")>> }] >>,
     content |-> <<>>]

payments ==
    [name |-> "payments.gs",
     patterns |-> << [kw |-> "function ", tail |-> "(",
                      alts |-> { <<Lit("menu"), Lit("D"), Lit("ryRunSpecificMonth")>>,
                                 <<Lit("payUsersForMonth")>> }] >>,
     content |-> <<>>]

menus ==
    [name |-> "menus.gs",
     patterns |-> << [kw |-> "function ", tail |-> "(",
                      alts |-> { <<Lit("menu"), UpperCase>>,
                                 <<Lit("runMenuHandler")>> }] >>,
     content |-> <<>>]

\* The orderings of the catalog the model runs under.
Catalogs ==
    { <<config, utils_core, utils_sheets_dual, payments, menus>>,
      <<utils_sheets_dual, config, utils_core, menus, payments>>,
      <<menus, payments, utils_sheets_dual, utils_core, config>> }

NoModule == 0

\* for module_name, module_info in MODULES.items(): ... the first entry, in
\* dict order, with a pattern that matches; NoModule when the loops run out.
RECURSIVE first_match_from(_, _, _)
first_match_from(mods, line, m) ==
    IF m > Len(mods) THEN NoModule
    ELSE IF ModuleMatches(mods[m], line) THEN m
    ELSE first_match_from(mods, line, m + 1)

\* Faulty variant: the last matching entry wins.
last_match(mods, line) ==
    IF \E m \in 1..Len(mods) : ModuleMatches(mods[m], line)
    THEN CHOOSE m \in 1..Len(mods) :
            /\ ModuleMatches(mods[m], line)
            /\ \A n \in 1..Len(mods) : ModuleMatches(mods[n], line) => n <= m
    ELSE NoModule
first_match(mods, line) == first_match_from(mods, line, 1)

(***************************************************************************)
(* extract_function_with_body                                              *)
(***************************************************************************)

\* brace_count += line.count('{'); brace_count -= line.count('}')
brace_delta(line) == count("{", line) - count("}", line)

\* if in_function and brace_count == 0
\* Faulty variants: the flag forgotten; the depth forgotten.
function_complete_ignoring_flag(in_function, brace_count) == brace_count = 0
function_complete_when_opened(in_function, brace_count) == in_function
function_complete(in_function, brace_count) == in_function /\ brace_count = 0

\* The for loop from index k on.  returned: the return of line 162 was taken.
RECURSIVE extract_loop(_, _, _, _, _)
extract_loop(ls, start_idx, k, brace_count, in_function) ==
    IF k >= Len(ls)
    THEN [result |-> SubSeq(ls, start_idx + 1, Len(ls)), next_i |-> Len(ls),
          returned |-> FALSE]
    ELSE LET line == ls[k + 1]
             bc   == brace_count + brace_delta(line)
             inf  == in_function \/ count("{", line) > 0
         IN  IF function_complete(inf, bc)
             THEN [result |-> SubSeq(ls, start_idx + 1, k + 1), next_i |-> k + 1,
                   returned |-> TRUE]
             ELSE extract_loop(ls, start_idx, k + 1, bc, inf)

extract_function_with_body(ls, start_idx) ==
    extract_loop(ls, start_idx, start_idx, 0, FALSE)

(***************************************************************************)
(* The input files of the model: at most MaxLen lines, each one of these.  *)
(***************************************************************************)

LineA1        == <<"function ", "a1_", "(", ")", " ", "{">>
LineToBool    == <<"function ", "toBool", "(", "v", ")", " ", "{", "return !!v;", "}">>
LineUnknown   == <<"function ", "unknownThing_", "(", ")", " ", "{">>
LineProps     == <<"function ", "props_", "(", ")">>
LineMenuDry   == <<"function ", "menu", "D", "ryRunSpecificMonth", "(", ")", " ", "{", "}">>
LineMinBal    == <<"var ", "MIN_BALANCE", " ", "=", " ", "5;">>
LineClose     == <<"}">>
LineIf        == <<" ", "if (x) ", "{">>
LineReturn    == <<" ", "return 1;">>
LineBlank     == <<>>
LineComment   == <<"/*", " ", "note", " ", "*/">>

LineTexts ==
    { LineA1, LineToBool, LineUnknown, LineProps, LineMenuDry, LineMinBal,
      LineClose, LineIf, LineReturn, LineBlank, LineComment }

\* read_file: what f.readlines() can return.
Inputs == UNION { [1..n -> LineTexts] : n \in 0..MaxLen }

EmptyReport ==
    [written |-> <<>>, unmatched |-> <<>>, more |-> 0,
     total |-> 0, assigned |-> 0, unassigned |-> 0]

NoPrev ==
    [kind |-> "none", report |-> EmptyReport, content |-> <<>>,
     header |-> <<>>, unmatched |-> <<>>, assigned_lines |-> {}]

\* The state when main() has read the file and is about to enter pass 1.
Init ==
    /\ lines \in Inputs
    /\ MODULES \in Catalogs
    /\ pc = "pass1"
    /\ i = 0
    /\ assigned_lines = {}
    /\ header = <<>>
    /\ unmatched = <<>>
    /\ in_header = TRUE
    /\ report = EmptyReport
    /\ units = <<>>
    /\ prev = NoPrev

(***************************************************************************)
(* Pass 1: one action per way through one iteration of the while loop.     *)
(***************************************************************************)

\* The entry of MODULES the iteration appends to: the first whose pattern
\* matches, when the line has one of the two shapes lines 187 and 196 ask for.
\* Faulty variant: a function line without a brace is passed over.
matched_module_braced(mods, line) ==
    IF (IsFunctionLine(line) /\ count("{", line) > 0) \/ IsVarLine(line)
    THEN first_match(mods, line)
    ELSE NoModule
matched_module(mods, line) ==
    IF IsFunctionLine(line) \/ IsVarLine(line) THEN first_match(mods, line)
    ELSE NoModule

\* module_info['content'].extend(func_lines); module_info['content'].append('\n')
extend_content(mods, m, func_lines) ==
    [mods EXCEPT ![m].content = @ \o func_lines \o << <<>> >>]

\* Lines 191-193 and 205: where the cursor is after a function was extracted.
\* Faulty variants: line 193 forgotten; line 205 forgotten.
cursor_after_stuck(cursor, next_i) == cursor + 1
cursor_after_no_increment(cursor, next_i) == next_i - 1
cursor_after(cursor, next_i) == (next_i - 1) + 1

\* Lines 187-195.
ScanFunction ==
    /\ pc = "pass1"
    /\ i < Len(lines)
    /\ LET line == lines[i + 1]
           m    == matched_module(MODULES, line)
       IN  /\ m # NoModule
           /\ IsFunctionLine(line)
           /\ LET ex == extract_function_with_body(lines, i)
              IN  /\ MODULES' = extend_content(MODULES, m, ex.result)
                  /\ assigned_lines' = assigned_lines \cup (i .. ex.next_i - 1)
                  /\ units' = Append(units,
                                 [module |-> m, lo |-> i, hi |-> ex.next_i,
                                  shape |-> "function", returned |-> ex.returned])
                  /\ i' = cursor_after(i, ex.next_i)
    /\ UNCHANGED <<lines, pc, header, unmatched, in_header, report, prev>>

\* Lines 196-201.
ScanVar ==
    /\ pc = "pass1"
    /\ i < Len(lines)
    /\ LET line == lines[i + 1]
           m    == matched_module(MODULES, line)
       IN  /\ m # NoModule
           /\ ~IsFunctionLine(line)
           /\ IsVarLine(line)
           /\ MODULES' = [MODULES EXCEPT ![m].content = Append(@, line)]
           /\ assigned_lines' = assigned_lines \cup {i}
           /\ units' = Append(units,
                          [module |-> m, lo |-> i, hi |-> i + 1,
                           shape |-> "var", returned |-> TRUE])
    /\ i' = i + 1
    /\ UNCHANGED <<lines, pc, header, unmatched, in_header, report, prev>>

\* No pattern matched (matched stays False): only line 205 acts.
ScanNoMatch ==
    /\ pc = "pass1"
    /\ i < Len(lines)
    /\ matched_module(MODULES, lines[i + 1]) = NoModule
    /\ i' = i + 1
    /\ UNCHANGED <<lines, MODULES, pc, assigned_lines, header, unmatched,
                   in_header, report, units, prev>>

\* The while condition is false; lines 208-210.
EndPass1 ==
    /\ pc = "pass1"
    /\ i >= Len(lines)
    /\ pc' = "pass2"
    /\ i' = 0
    /\ header' = <<>>
    /\ unmatched' = <<>>
    /\ in_header' = TRUE
    /\ UNCHANGED <<lines, MODULES, assigned_lines, report, units, prev>>

(***************************************************************************)
(* Pass 2: one action per way through one iteration of the for loop.       *)
(***************************************************************************)

\* Lines 213-215.
CoverAssigned ==
    /\ pc = "pass2"
    /\ i < Len(lines)
    /\ i \in assigned_lines
    /\ in_header' = FALSE
    /\ i' = i + 1
    /\ UNCHANGED <<lines, MODULES, pc, assigned_lines, header, unmatched,
                   report, units, prev>>

\* Lines 218-220.
CoverHeader ==
    /\ pc = "pass2"
    /\ i < Len(lines)
    /\ i \notin assigned_lines
    /\ in_header /\ ~IsFunctionLine(lines[i + 1])
    /\ header' = IF NonBlank(lines[i + 1]) /\ ~IsCommentLine(lines[i + 1])
                 THEN Append(header, lines[i + 1])
                 ELSE header
    /\ i' = i + 1
    /\ UNCHANGED <<lines, MODULES, pc, assigned_lines, unmatched, in_header,
                   report, units, prev>>

\* Lines 221-224.
CoverUnmatched ==
    /\ pc = "pass2"
    /\ i < Len(lines)
    /\ i \notin assigned_lines
    /\ ~(in_header /\ ~IsFunctionLine(lines[i + 1]))
    /\ ~in_header /\ i \notin assigned_lines
    /\ unmatched' = IF NonBlank(lines[i + 1])
                    THEN Append(unmatched, <<i + 1, lines[i + 1]>>)
                    ELSE unmatched
    /\ i' = i + 1
    /\ UNCHANGED <<lines, MODULES, pc, assigned_lines, header, in_header,
                   report, units, prev>>

\* Neither the if of line 218 nor the elif of line 221: a function-shaped
\* line while in_header is still True.
CoverNeither ==
    /\ pc = "pass2"
    /\ i < Len(lines)
    /\ i \notin assigned_lines
    /\ ~(in_header /\ ~IsFunctionLine(lines[i + 1]))
    /\ ~(~in_header /\ i \notin assigned_lines)
    /\ i' = i + 1
    /\ UNCHANGED <<lines, MODULES, pc, assigned_lines, header, unmatched,
                   in_header, report, units, prev>>

(***************************************************************************)
(* Lines 226-249: the files written and the report printed.                *)
(***************************************************************************)

\* "Writing {filepath}... ({len(module_info['content'])} lines)", one per
\* entry with content, in dict order.
RECURSIVE written_from(_, _)
written_from(mods, m) ==
    IF m > Len(mods) THEN <<>>
    ELSE (IF mods[m].content # <<>>
          THEN << <<mods[m].name, Len(mods[m].content)>> >>
          ELSE <<>>) \o written_from(mods, m + 1)

the_report ==
    [written    |-> written_from(MODULES, 1),
     unmatched  |-> SubSeq(unmatched, 1, Min(ReportLimit, Len(unmatched))),
     more       |-> IF Len(unmatched) > ReportLimit
                    THEN Len(unmatched) - ReportLimit ELSE 0,
     total      |-> Len(lines),
     assigned   |-> Cardinality(assigned_lines),
     unassigned |-> Len(lines) - Cardinality(assigned_lines)]

Report ==
    /\ pc = "pass2"
    /\ i >= Len(lines)
    /\ report' = the_report
    /\ pc' = "done"
    /\ UNCHANGED <<lines, MODULES, i, assigned_lines, header, unmatched,
                   in_header, units, prev>>

Next ==
    \/ ScanFunction
    \/ ScanVar
    \/ ScanNoMatch
    \/ EndPass1
    \/ CoverAssigned
    \/ CoverHeader
    \/ CoverUnmatched
    \/ CoverNeither
    \/ Report

\* One call of main() in a fresh interpreter.
Spec == Init /\ [][Next]_vars

\* main() is straight-line sequential code: a step that can be taken is taken.
LiveSpec == Spec /\ WF_vars(Next)

(***************************************************************************)
(* main() called a second time by the same interpreter: the locals are     *)
(* bound afresh (lines 171-177), the module-level MODULES is what the      *)
(* first call left.                                                        *)
(***************************************************************************)

contents(mods) == [m \in 1..Len(mods) |-> mods[m].content]

Rerun ==
    /\ pc = "done"
    /\ prev.kind = "none"
    /\ prev' = [kind |-> "rerun", report |-> report, content |-> contents(MODULES),
                header |-> header, unmatched |-> unmatched,
                assigned_lines |-> assigned_lines]
    /\ pc' = "pass1"
    /\ i' = 0
    /\ assigned_lines' = {}
    /\ header' = <<>>
    /\ unmatched' = <<>>
    /\ in_header' = TRUE
    /\ report' = EmptyReport
    /\ units' = <<>>
    /\ UNCHANGED <<lines, MODULES>>

NextRerun ==
    \/ Next
    \/ Rerun

SpecRerun == Init /\ [][NextRerun]_vars

(***************************************************************************)
(* A run whose last unit ran off the end of the input, then the same file  *)
(* with the braces that unit lacks added to its last line, run by a fresh  *)
(* interpreter.                                                            *)
(***************************************************************************)

RECURSIVE depth_sum(_, _, _)
depth_sum(ls, from, to) ==
    IF from > to THEN 0
    ELSE count("{", ls[from + 1]) - count("}", ls[from + 1])
         + depth_sum(ls, from + 1, to)

RECURSIVE repeat(_, _)
repeat(tok, n) == IF n <= 0 THEN <<>> ELSE <<tok>> \o repeat(tok, n - 1)

closing_braces(ls, lo) ==
    LET d == depth_sum(ls, lo, Len(ls) - 1)
    IN  IF d > 0 THEN repeat("}", d)
        ELSE IF d < 0 THEN repeat("{", 0 - d)
        ELSE <<"{", "}">>

Repair ==
    /\ pc = "done"
    /\ prev.kind = "none"
    /\ units # <<>>
    /\ ~units[Len(units)].returned
    /\ prev' = [kind |-> "repair", report |-> report, content |-> contents(MODULES),
                header |-> header, unmatched |-> unmatched,
                assigned_lines |-> assigned_lines]
    /\ lines' = [lines EXCEPT ![Len(lines)] =
                    @ \o closing_braces(lines, units[Len(units)].lo)]
    /\ MODULES' = [m \in 1..Len(MODULES) |-> [MODULES[m] EXCEPT !.content = <<>>]]
    /\ pc' = "pass1"
    /\ i' = 0
    /\ assigned_lines' = {}
    /\ header' = <<>>
    /\ unmatched' = <<>>
    /\ in_header' = TRUE
    /\ report' = EmptyReport
    /\ units' = <<>>

NextRepair ==
    \/ Next
    \/ Repair

SpecRepair == Init /\ [][NextRepair]_vars

(***************************************************************************)
(* Properties                                                              *)
(***************************************************************************)

UnitIds == 1..Len(units)

Indices == 0..(Len(lines) - 1)

FunctionUnits == { k \in UnitIds : units[k].shape = "function" }

\* The modules with a pattern that matches the line.
Matching(line) == { m \in 1..Len(MODULES) : ModuleMatches(MODULES[m], line) }

\* The line is the start of a declaration the scan hands to a module.
Classified(line) ==
    (IsFunctionLine(line) \/ IsVarLine(line)) /\ Matching(line) # {}

RECURSIVE opening_total(_, _, _)
opening_total(ls, from, to) ==
    IF from > to THEN 0
    ELSE count("{", ls[from + 1]) + opening_total(ls, from + 1, to)

RECURSIVE closing_total(_, _, _)
closing_total(ls, from, to) ==
    IF from > to THEN 0
    ELSE count("}", ls[from + 1]) + closing_total(ls, from + 1, to)

\* Some line of from..to has an opening brace and the braces of from..to balance.
ClosesAt(ls, from, to) ==
    /\ opening_total(ls, from, to) > 0
    /\ opening_total(ls, from, to) = closing_total(ls, from, to)

\* The indices from start on at which the braces from start on close.
ClosingIndices(ls, start) ==
    { j \in start..(Len(ls) - 1) : ClosesAt(ls, start, j) }

\* One past the smallest of them; the length of the input when there is none.
ExpectedEnd(ls, start) ==
    LET closing == ClosingIndices(ls, start)
    IN  IF closing = {} THEN Len(ls)
        ELSE 1 + CHOOSE j \in closing : \A h \in closing : j <= h

\* C1 (as claimed): when both passes are done, the consumed indices, the
\* header lines and the unmatched lines together count every line of the
\* input once: len(lines) = |consumed| + |header| + |unmatched|.
C1_Partition ==
    pc = "done" =>
        Len(lines) = Cardinality(assigned_lines) + Len(header) + Len(unmatched)

\* C2 (as claimed): a line that two modules match goes to the earlier one
\* and to no other, and "function menuDryRunSpecificMonth(" is such a line,
\* matched by payments.gs and by the menu[A-Z] rule of menus.gs.
C2_OverlapAsClaimed ==
    \A k \in UnitIds :
        /\ units[k].module = CHOOSE m \in Matching(lines[units[k].lo + 1]) :
                                \A n \in Matching(lines[units[k].lo + 1]) : m <= n
        /\ lines[units[k].lo + 1] = LineMenuDry =>
              { MODULES[m].name : m \in Matching(LineMenuDry) }
                  = {"payments.gs", "menus.gs"}

\* C2 (amended): in every ordering of the catalog, a step of pass 1 on a
\* declaration line that some module matches appends to the content of the
\* earliest matching module and to no other content; and
\* "function menuDryRunSpecificMonth(" is matched by payments.gs alone, so
\* it goes to payments.gs wherever menus.gs stands.
C2_FirstMatchWins ==
    [][ /\ \A m \in 1..Len(MODULES) :
              MODULES'[m].content # MODULES[m].content =>
                  /\ pc = "pass1"
                  /\ m \in Matching(lines[i + 1])
                  /\ \A n \in Matching(lines[i + 1]) : m <= n
                  /\ lines[i + 1] = LineMenuDry => MODULES[m].name = "payments.gs"
        /\ (pc = "pass1" /\ i < Len(lines) /\ i' # i /\ Classified(lines[i + 1])) =>
              \E m \in 1..Len(MODULES) : MODULES'[m].content # MODULES[m].content
      ]_vars

\* C2 witness: a unit of a line that two modules match was given to
\* utils-sheets.gs, which stands before utils-core.gs in this catalog.
C2_Witness ==
    \E k \in UnitIds :
        /\ Cardinality(Matching(lines[units[k].lo + 1])) = 2
        /\ MODULES[units[k].module].name = "utils-sheets.gs"
        /\ MODULES[units[k].module].content # <<>>

\* What the units given to module m put into its content, in scan order.
RECURSIVE units_text(_, _)
units_text(m, k) ==
    IF k = 0 THEN <<>>
    ELSE units_text(m, k - 1) \o
         (IF units[k].module # m THEN <<>>
          ELSE SubSeq(lines, units[k].lo + 1, units[k].hi) \o
               (IF units[k].shape = "function" THEN << <<>> >> ELSE <<>>))

\* C3: at every point of a scan the ranges of the units extracted so far
\* are non-empty and pairwise disjoint, their union is assigned_lines, so
\* each consumed index lies in exactly one unit of one module, and each
\* module's content is exactly the text of its units, each once.
C3_UnitsDisjoint ==
    /\ \A k \in UnitIds : 0 <= units[k].lo /\ units[k].lo < units[k].hi
                          /\ units[k].hi <= Len(lines)
    /\ \A k, h \in UnitIds :
          k # h => (units[k].hi <= units[h].lo \/ units[h].hi <= units[k].lo)
    /\ assigned_lines =
          UNION { units[k].lo .. (units[k].hi - 1) : k \in UnitIds }
    /\ \A m \in 1..Len(MODULES) : MODULES[m].content = units_text(m, Len(units))

\* C3 witness: the scan is over and a unit holds, inside its body, a line
\* that is itself a signature some module matches.
C3_Witness ==
    /\ pc = "done"
    /\ \E k \in UnitIds :
          \E j \in (units[k].lo + 1) .. (units[k].hi - 1) :
              IsFunctionLine(lines[j + 1]) /\ Classified(lines[j + 1])

\* C4: while pass 1 runs, extract_function_with_body(lines, start), for
\* every start from the cursor on and below len(lines), returns the lines from start to j and j + 1, j the smallest
\* index from start on at which a '{' has been seen and the braces balance,
\* and the lines from start to the end and len(lines) when there is no such
\* j; the units the scan extracted are these.
C4_ExtractEnd ==
    /\ \A start \in Indices :
          (pc = "pass1" /\ start >= i) =>
          LET ex  == extract_function_with_body(lines, start)
              end == ExpectedEnd(lines, start)
          IN  /\ ex.next_i = end
              /\ ex.result = SubSeq(lines, start + 1, end)
              /\ ClosesAt(lines, start, start) => ex.next_i = start + 1
    /\ \A k \in FunctionUnits : units[k].hi = ExpectedEnd(lines, units[k].lo)

\* C4 witness: the scan extracted a function of three lines that closed on
\* its third line.
C4_Witness ==
    /\ pc = "pass2"
    /\ \E k \in FunctionUnits :
          /\ units[k].returned
          /\ units[k].hi = units[k].lo + 3
          /\ ~ClosesAt(lines, units[k].lo, units[k].lo + 1)

\* C5: a unit extracted from a function signature whose extraction ended by
\* the return of line 162 has as many '{' as '}' over all its lines.
C5_Balanced ==
    \A k \in FunctionUnits :
        units[k].returned =>
            opening_total(lines, units[k].lo, units[k].hi - 1)
                = closing_total(lines, units[k].lo, units[k].hi - 1)

\* C5 witness: a unit of several lines with braces that ended by the return.
C5_Witness ==
    \E k \in FunctionUnits :
        /\ units[k].returned
        /\ units[k].hi >= units[k].lo + 2
        /\ opening_total(lines, units[k].lo, units[k].hi - 1) >= 1

\* C6 (as claimed): when both passes are done, every non-blank line that
\* starts a function or var declaration, matches no rule and was not
\* consumed is in unmatched under its 1-based number, with no unit of its
\* own; and the input ["function unknownThing_() {", "}"] gives
\* unmatched = [(1, ...), (2, ...)] and an empty header.
C6_UnmatchedReported ==
    pc = "done" =>
        /\ \A k \in Indices :
              ( /\ IsFunctionLine(lines[k + 1]) \/ IsVarLine(lines[k + 1])
                /\ Matching(lines[k + 1]) = {}
                /\ k \notin assigned_lines )
              => /\ <<k + 1, lines[k + 1]>> \in
                        { unmatched[h] : h \in 1..Len(unmatched) }
                 /\ \A u \in UnitIds : units[u].lo # k
        /\ lines = <<LineUnknown, LineClose>> =>
              /\ unmatched = << <<1, LineUnknown>>, <<2, LineClose>> >>
              /\ header = <<>>

\* C7 (as claimed): the report of a run whose last unit ran off the end of
\* the input differs from the report of the run on the same input with that
\* unit closed on the last line.
C7_UnbalancedSurfaced ==
    (pc = "done" /\ prev.kind = "repair") => report # prev.report

\* C8 (as claimed): a second scan of the same lines with the same catalog
\* ends with the same content per module, header, unmatched list and
\* report as the first.
C8_RerunIdentical ==
    (pc = "done" /\ prev.kind = "rerun") =>
        /\ contents(MODULES) = prev.content
        /\ header = prev.header
        /\ unmatched = prev.unmatched
        /\ report = prev.report

\* A function-shaped line that some module matches and that has no '{'.
Braceless(line) ==
    IsFunctionLine(line) /\ Classified(line) /\ count("{", line) = 0

\* C9 (as claimed): the scan makes no unit that starts at a matched
\* function signature without a '{'; the cursor steps over such a line by
\* one and the line is not consumed.
C9_BracelessSkipped ==
    \A k \in UnitIds : ~Braceless(lines[units[k].lo + 1])

\* C9 (amended): a matched function signature without a '{' is handed to
\* extract_function_with_body like any other: once the cursor has passed
\* it, it is consumed, and when the cursor met it, it and the lines after
\* it up to the first line where a '{' has been seen and the braces balance
\* (or to the end of the input) became one unit, which the cursor skipped.
C9_BracelessExtracted ==
    /\ \A j \in Indices :
          (Braceless(lines[j + 1]) /\ (pc # "pass1" \/ j < i)) =>
              j \in assigned_lines
    /\ \A k \in UnitIds :
          Braceless(lines[units[k].lo + 1]) =>
              /\ units[k].hi = ExpectedEnd(lines, units[k].lo)
              /\ units[k].lo .. (units[k].hi - 1) \subseteq assigned_lines
              /\ (units[k].hi = units[k].lo + 1) => units[k].hi = Len(lines)
              /\ pc = "pass1" => i >= units[k].hi

\* C9 witness: a unit that starts at such a signature took the lines after
\* it too.
C9_Witness ==
    \E k \in UnitIds :
        /\ Braceless(lines[units[k].lo + 1])
        /\ units[k].hi >= units[k].lo + 2
        /\ units[k].returned

\* C10: every iteration of pass 1 moves the cursor strictly forward (by
\* one, or to the end of the unit it extracted), the cursor is never on a
\* consumed line, pass 1 is left only with the cursor at len(lines) or
\* beyond, and it is left.
C10_CursorAdvances ==
    /\ [][(pc = "pass1" /\ pc' = "pass1") =>
             /\ i' > i
             /\ (assigned_lines' = assigned_lines => i' = i + 1)
             /\ (assigned_lines' # assigned_lines =>
                    /\ assigned_lines' = assigned_lines \cup (i .. (i' - 1))
                    /\ \A j \in assigned_lines' : j < i')]_vars
    /\ [][(pc = "pass1" /\ pc' # "pass1") => i >= Len(lines)]_vars
    /\ [](pc = "pass1" => \A j \in assigned_lines : j < i)
    /\ <>(pc # "pass1")

\* C10 witness: pass 1 is over and the cursor once jumped over a unit of
\* two or more lines and once stepped over a line it left alone.
C10_Witness ==
    /\ pc = "pass2"
    /\ i = 0
    /\ \E k \in UnitIds : units[k].hi >= units[k].lo + 2
    /\ Cardinality(assigned_lines) < Len(lines)

====
